---- MODULE Spec2Model ----
(***************************************************************************)
(* AfterNextRenderScheduler / AfterNextRenderAction                        *)
(* (projects/ngx-rxjs-render-scheduler/src/lib/afterNextRenderScheduler.ts)*)
(*                                                                         *)
(* The scheduler creates one action per schedule() call.  An action arms   *)
(* a timer (setTimeout) for a positive delay and registers a one-shot      *)
(* callback with afterNextRender otherwise; the timer callback calls       *)
(* schedule(state) again, the render callback calls execute(state).        *)
(*                                                                         *)
(* The host is single threaded: every step below is one synchronous call   *)
(* into the library (Scheduler.schedule, action.schedule on a returned     *)
(* handle, unsubscribe, one timer callback, one render callback) or one    *)
(* unit of time passing.  Time is kept relative: a timer holds the time    *)
(* left until it is due, a request the time left of the delay it asked for.*)
(***************************************************************************)
EXTENDS Integers, Sequences, FiniteSets, TLC

\* ------------------------------------------------------------------ bounds
\* schedule() calls in a run, the scheduler's and the handles' together
MaxCalls == 3
\* largest delay a schedule() call is given
MaxDelay == 2

\* ------------------------------------------------------------------ inputs
Tasks == 1..MaxCalls
\* delay: negative, zero and positive values
Delays == (0 - 1)..MaxDelay
\* What a call of a work function does: it returns, or it throws an error.
Errors == {"E1", "E2"}
Ends == {"returns"} \cup Errors
\* What a run of a work function does. Work is called with the action as
\* `this`: before it ends it may call this.unsubscribe() or
\* this.schedule(state, delay) on its own action. does is that call (or
\* "nothing"), delay the delay it passes to schedule, ends how the run ends.
Outcomes ==
    {[does |-> "nothing", delay |-> 0, ends |-> e] : e \in Ends}
        \cup {[does |-> "unsubscribe", delay |-> 0, ends |-> e] : e \in Ends}
        \cup {[does |-> "schedule", delay |-> d, ends |-> e] :
                 d \in Delays, e \in Ends}
\* Runs of work that leave the action alone.
PlainOutcomes == {o \in Outcomes : o.does = "nothing"}
\* A work function that only returns.
Returns == [does |-> "nothing", delay |-> 0, ends |-> "returns"]
\* A work function that unsubscribes its action and returns.
Unsubscribes == [does |-> "unsubscribe", delay |-> 0, ends |-> "returns"]
\* timeoutId: ReturnType<typeof setTimeout> | null = null
NULL == 0
NoError == "none"
\* Injector references a caller can hold, and the one the injection context
\* provides when one is active.
Injectors == {"i1", "i2"}
AmbientInjector == "ambient"
NoContext == "none"
\* now: Date.now, or the clock the options give
WallClock == "Date.now"
Clocks == {"clockA"}
Absent == "undefined"

VARIABLES
    nTasks,      \* number of actions created so far by Scheduler.schedule
    closed,      \* closed[t]: Subscription.closed of action t
    timeoutId,   \* timeoutId[t]: the action's private timeoutId field
    timers,      \* host timer table: armed setTimeout entries, in arming order
    renderQueue, \* afterNextRender registrations not yet fired, in order
    calls,       \* calls[t]: how many times the work of action t was invoked
    resched,     \* resched[t]: calls of action.schedule made on handle t
    last,        \* the last call into the library: what it invoked and raised
    ambient,     \* the injector of the active injection context, or NoContext
    options,     \* the argument given to the scheduler's constructor
    scheduler,   \* the AfterNextRenderScheduler: its fields once constructed
    source,      \* the notifications of a stream piped through observeOnNextRender
    delivered,   \* the notifications its downstream subscriber has received
    stopped      \* the downstream subscriber has received complete or error

vars == <<nTasks, closed, timeoutId, timers, renderQueue, calls, resched, last,
          ambient, options, scheduler, source, delivered, stopped>>

\* The stream piped through observeOnNextRender, when there is one.
stream == <<source, delivered, stopped>>

\* What lies outside the actions: the injection context, the constructor's
\* argument, the scheduler and the stream.
setup == <<ambient, options, scheduler, stream>>

\* No stream is piped through the scheduler.
NoStream == source = <<>> /\ delivered = <<>> /\ stopped = FALSE

\* ------------------------------------------------------------------ helpers
Max(a, b) == IF a > b THEN a ELSE b

\* s without its i-th element
RemoveAt(s, i) == [j \in 1..(Len(s) - 1) |-> IF j < i THEN s[j] ELSE s[j + 1]]

RECURSIVE Sum(_, _)
Sum(f, S) ==
    IF S = {} THEN 0
    ELSE LET x == CHOOSE y \in S : TRUE IN f[x] + Sum(f, S \ {x})

\* schedule() calls made so far, the scheduler's and the handles'
Requests == nTasks + Sum(resched, Tasks)

\* The request a callback stems from: which schedule() call on its action
\* started it (0 for the scheduler's call, k for the k-th call on the handle),
\* whether that call was given a positive delay, and how much of the delay
\* it was given is still to pass.
Origin(k, delay) == [k |-> k, delayed |-> delay > 0, wait |-> Max(delay, 0)]

\* The state payload of a call: every schedule() call passes its own value
\* (the code never inspects it).
StateOf(t, k) == <<t, k>>

\* The state of a call that passes none (undefined).
NoState == StateOf(0, 0)

\* The program state a call works on, with the call's context: via names the
\* entry point that is on the stack ("schedule", "reschedule", "cancel",
\* "timer", "render"), task the action it is about, delay the delay argument
\* of a schedule call, origin the request the call serves, wasClosed whether
\* the action was closed when the call began and injector the action's
\* injector field (the scheduler's injector, handed to every action it
\* creates) and nextK the number the next schedule() call on the handle gets;
\* invoked lists the work invocations the call has made, returned
\* is the action a schedule call returns (0 before it returns) and raised
\* the exception propagating out of the call.
World(via, t, delay, origin) ==
    [via |-> via, task |-> t, delay |-> delay, origin |-> origin,
     wasClosed |-> (t \in Tasks /\ closed[t]),
     injector |-> scheduler.injector, returned |-> 0,
     nextK |-> (IF t \in Tasks THEN resched[t] + 1 ELSE 0),
     closed |-> closed, timeoutId |-> timeoutId, timers |-> timers,
     renderQueue |-> renderQueue, calls |-> calls,
     invoked |-> <<>>, raised |-> NoError]

\* ------------------------------------------------------------------ host
\* Timer ids are opaque and never equal to an id that is still armed or still
\* held in some action's timeoutId field.
UsedTimerIds(w) ==
    {w.timers[i].id : i \in 1..Len(w.timers)}
        \cup {w.timeoutId[t] : t \in Tasks}

FreshTimerId(w) ==
    CHOOSE i \in 1..(Cardinality(UsedTimerIds(w)) + 1) :
        /\ i \notin UsedTimerIds(w)
        /\ \A j \in 1..(i - 1) : j \in UsedTimerIds(w)

\* setTimeout(() => this.schedule(state), delay): the entry is due delay
\* time units from now.
setTimeout(w, id, t, state, delay) ==
    Append(w.timers, [id |-> id, task |-> t, state |-> state,
                      rem |-> delay, origin |-> w.origin])

\* clearTimeout(id): removes the armed entry with that id, if any.
clearTimeout(ts, id) ==
    SelectSeq(ts, LAMBDA x : x.id # id)

\* afterNextRender(() => this.execute(state), { injector }): one more
\* one-shot registration, behind those already made.
afterNextRender(w, t, state) ==
    Append(w.renderQueue, [task |-> t, state |-> state, origin |-> w.origin,
                           injector |-> w.injector])

\* --------------------------------------------------------------- scheduler
\* The argument of new AfterNextRenderScheduler(...): nothing, an Injector,
\* or an options object whose injector and now may each be absent.
CtorArgs ==
    {[kind |-> "undefined"]}
        \cup {[kind |-> "injector", injector |-> i] : i \in Injectors}
        \cup {[kind |-> "options", injector |-> i, now |-> c] :
                 i \in Injectors \cup {Absent}, c \in Clocks \cup {Absent}}

\* The scheduler before its constructor has run.
NotConstructed ==
    [status |-> "none", injector |-> Absent, now |-> Absent, injectCalls |-> 0]

\* inject(Injector): the injector of the active injection context; it throws
\* when no context is active.
inject(amb) ==
    IF amb = NoContext THEN [threw |-> TRUE, value |-> Absent]
    ELSE [threw |-> FALSE, value |-> amb]

\* A constructor that resolves the context's injector before it looks at its
\* argument.
ConstructorInjectsFirst(amb, arg) ==
    IF inject(amb).threw
    THEN [status |-> "threw", injector |-> Absent, now |-> Absent,
          injectCalls |-> 1]
    ELSE [status |-> "constructed",
          injector |-> IF arg.kind = "undefined" \/ arg.injector = Absent
                       THEN inject(amb).value ELSE arg.injector,
          now |-> IF arg.kind = "options" /\ arg.now # Absent
                  THEN arg.now ELSE WallClock,
          injectCalls |-> 1]

\* AfterNextRenderScheduler constructor. injectCalls counts the calls of
\* inject(Injector) it makes; status "threw" is a constructor that raised and
\* built nothing.
Constructor(amb, arg) ==
    IF arg.kind = "injector"
    THEN [status |-> "constructed", injector |-> arg.injector,
          now |-> WallClock, injectCalls |-> 0]
    ELSE LET givenNow == IF arg.kind = "options" THEN arg.now ELSE Absent
             givenInj == IF arg.kind = "options" THEN arg.injector ELSE Absent
             clock == IF givenNow # Absent THEN givenNow ELSE WallClock
         IN  IF givenInj # Absent
             THEN [status |-> "constructed", injector |-> givenInj,
                   now |-> clock, injectCalls |-> 0]
             ELSE IF inject(amb).threw
                  THEN [status |-> "threw", injector |-> Absent,
                        now |-> Absent, injectCalls |-> 1]
                  ELSE [status |-> "constructed", injector |-> inject(amb).value,
                        now |-> clock, injectCalls |-> 1]

\* ------------------------------------------------------------------ action
\* unsubscribe with one timeoutId shared by every action: it clears all timers.
UnsubscribeSharedTimeout(w, t) ==
    IF w.closed[t] THEN w
    ELSE [w EXCEPT !.timers = <<>>,
                   !.timeoutId = [u \in Tasks |-> NULL],
                   !.closed[t] = TRUE]

\* unsubscribe that clears the timer only when called on a closed action.
UnsubscribeLateClear(w, t) ==
    IF w.closed[t]
    THEN IF w.timeoutId[t] # NULL
         THEN [w EXCEPT !.timers = clearTimeout(@, w.timeoutId[t]),
                        !.timeoutId[t] = NULL]
         ELSE w
    ELSE [w EXCEPT !.closed[t] = TRUE]

\* AfterNextRenderAction.unsubscribe
ActionUnsubscribe(w, t) ==
    IF w.closed[t] THEN w
    ELSE LET cleared ==
                 IF w.timeoutId[t] # NULL
                 THEN [w EXCEPT !.timers = clearTimeout(@, w.timeoutId[t]),
                                !.timeoutId[t] = NULL]
                 ELSE w
         IN  [cleared EXCEPT !.closed[t] = TRUE]

\* schedule whose timer branch falls through to the render branch.
ScheduleFallsThrough(w, t, state, delay) ==
    IF w.closed[t] THEN w
    ELSE LET id == FreshTimerId(w)
             armed ==
                 IF delay > 0
                 THEN [w EXCEPT !.timers = setTimeout(w, id, t, state, delay),
                                !.timeoutId[t] = id]
                 ELSE w
         IN  [armed EXCEPT !.renderQueue = afterNextRender(w, t, state)]

\* schedule that runs zero-delay work at once instead of registering it.
ScheduleImmediate(w, t, state, delay) ==
    IF w.closed[t] THEN w
    ELSE IF delay > 0
         THEN LET id == FreshTimerId(w)
              IN  [w EXCEPT !.timers = setTimeout(w, id, t, state, delay),
                            !.timeoutId[t] = id]
         ELSE [w EXCEPT !.calls[t] = @ + 1,
                        !.invoked = Append(@, [task |-> t, state |-> state,
                                               outcome |-> Returns])]

\* schedule that registers with the render provider whatever the delay.
ScheduleIgnoresDelay(w, t, state, delay) ==
    IF w.closed[t] THEN w
    ELSE [w EXCEPT !.renderQueue = afterNextRender(w, t, state)]

\* schedule with its closed check inverted.
ScheduleGuardInverted(w, t, state, delay) ==
    IF ~w.closed[t] THEN w
    ELSE IF delay > 0
         THEN LET id == FreshTimerId(w)
              IN  [w EXCEPT !.timers = setTimeout(w, id, t, state, delay),
                            !.timeoutId[t] = id]
         ELSE [w EXCEPT !.renderQueue = afterNextRender(w, t, state)]

\* schedule that sends a zero delay through the timer (delay >= 0).
ScheduleZeroToTimer(w, t, state, delay) ==
    IF w.closed[t] THEN w
    ELSE IF delay >= 0
         THEN LET id == FreshTimerId(w)
              IN  [w EXCEPT !.timers = setTimeout(w, id, t, state, delay),
                            !.timeoutId[t] = id]
         ELSE [w EXCEPT !.renderQueue = afterNextRender(w, t, state)]

\* schedule with its two branches swapped.
ScheduleBranchesSwapped(w, t, state, delay) ==
    IF w.closed[t] THEN w
    ELSE IF delay > 0
         THEN [w EXCEPT !.renderQueue = afterNextRender(w, t, state)]
         ELSE LET id == FreshTimerId(w)
              IN  [w EXCEPT !.timers = setTimeout(w, id, t, state, delay),
                            !.timeoutId[t] = id]

\* schedule without the closed check.
ScheduleNoGuard(w, t, state, delay) ==
    IF delay > 0
    THEN LET id == FreshTimerId(w)
         IN  [w EXCEPT !.timers = setTimeout(w, id, t, state, delay),
                       !.timeoutId[t] = id,
                       !.returned = t]
    ELSE [w EXCEPT !.renderQueue = afterNextRender(w, t, state),
                   !.returned = t]

\* AfterNextRenderAction.schedule; every path returns this.
ActionSchedule(w, t, state, delay) ==
    IF w.closed[t] THEN [w EXCEPT !.returned = t]
    ELSE IF delay > 0
         THEN LET id == FreshTimerId(w)
              IN  [w EXCEPT !.timers = setTimeout(w, id, t, state, delay),
                            !.timeoutId[t] = id,
                            !.returned = t]
         ELSE [w EXCEPT !.renderQueue = afterNextRender(w, t, state),
                        !.returned = t]

\* What the run of work does to its own action through `this` before it ends:
\* this.unsubscribe(), or this.schedule(state, delay) with a state of its own
\* (a new request on the handle).
Work(w, t, outcome) ==
    IF outcome.does = "unsubscribe" THEN ActionUnsubscribe(w, t)
    ELSE IF outcome.does = "schedule"
         THEN LET asked == [w EXCEPT !.origin = Origin(w.nextK, outcome.delay)]
                  done == ActionSchedule(asked, t, StateOf(t, w.nextK),
                                         outcome.delay)
              IN  [done EXCEPT !.origin = w.origin, !.returned = w.returned]
         ELSE w

\* execute without its closed check.
ExecuteNoGuard(w, t, state, outcome) ==
    LET called ==
            [w EXCEPT !.calls[t] = @ + 1,
                      !.invoked = Append(@, [task |-> t, state |-> state,
                                             outcome |-> outcome])]
        worked == Work(called, t, outcome)
    IN  IF outcome.ends \in Errors
        THEN [ActionUnsubscribe(worked, t) EXCEPT !.raised = outcome.ends]
        ELSE worked

\* execute that rethrows without unsubscribing.
ExecuteNoUnsubscribe(w, t, state, outcome) ==
    IF w.closed[t] THEN w
    ELSE LET called ==
                 [w EXCEPT !.calls[t] = @ + 1,
                           !.invoked = Append(@, [task |-> t, state |-> state,
                                                  outcome |-> outcome])]
             worked == Work(called, t, outcome)
         IN  IF outcome.ends \in Errors
             THEN [worked EXCEPT !.raised = outcome.ends]
             ELSE worked

\* execute that unsubscribes the action after every run of work, not only
\* after one that throws.
ExecuteClosesAfterRun(w, t, state, outcome) ==
    IF w.closed[t] THEN w
    ELSE LET called ==
                 [w EXCEPT !.calls[t] = @ + 1,
                           !.invoked = Append(@, [task |-> t, state |-> state,
                                                  outcome |-> outcome])]
             worked == Work(called, t, outcome)
         IN  [ActionUnsubscribe(worked, t) EXCEPT
                  !.raised = IF outcome.ends \in Errors THEN outcome.ends ELSE NoError]

\* AfterNextRenderAction.execute; outcome is what this.work(state) does in
\* this run.
ActionExecute(w, t, state, outcome) ==
    IF w.closed[t] THEN w
    ELSE LET called ==
                 [w EXCEPT !.calls[t] = @ + 1,
                           !.invoked = Append(@, [task |-> t, state |-> state,
                                                  outcome |-> outcome])]
             worked == Work(called, t, outcome)
         IN  IF outcome.ends \in Errors
             THEN [ActionUnsubscribe(worked, t) EXCEPT !.raised = outcome.ends]
             ELSE worked

\* ------------------------------------------------------------------ steps
\* Writes a call's resulting program state back, and records the call.
Commit(w) ==
    /\ closed' = w.closed
    /\ timeoutId' = w.timeoutId
    /\ timers' = w.timers
    /\ renderQueue' = w.renderQueue
    /\ calls' = w.calls
    /\ last' = [op |-> w.via, task |-> w.task, delay |-> w.delay,
                origin |-> w.origin, wasClosed |-> w.wasClosed,
                invoked |-> w.invoked, returned |-> w.returned,
                raised |-> w.raised]

\* The record of a step that is no call on an action.
NoCall(op) ==
    [op |-> op, task |-> 0, delay |-> 0, origin |-> Origin(0, 0),
     wasClosed |-> FALSE, invoked |-> <<>>, returned |-> 0, raised |-> NoError]

\* No action exists yet.
NoActions ==
    /\ nTasks = 0
    /\ closed = [t \in Tasks |-> FALSE]
    /\ timeoutId = [t \in Tasks |-> NULL]
    /\ timers = <<>>
    /\ renderQueue = <<>>
    /\ calls = [t \in Tasks |-> 0]
    /\ resched = [t \in Tasks |-> 0]

\* The state after new AfterNextRenderScheduler(injector), outside any
\* injection context.
Init ==
    /\ NoActions
    /\ last = NoCall("init")
    /\ ambient = NoContext
    /\ options = [kind |-> "injector", injector |-> "i1"]
    /\ scheduler = Constructor(ambient, options)
    /\ NoStream

\* AfterNextRenderScheduler.schedule(work, delay, state):
\* new AfterNextRenderAction(injector, work).schedule(state, delay)
SchedulerSchedule(delay) ==
    /\ scheduler.status = "constructed"
    /\ Requests < MaxCalls
    /\ LET t == nTasks + 1
           w0 == World("schedule", t, delay, Origin(0, delay))
       IN  Commit(ActionSchedule(w0, t, StateOf(t, 0), delay))
    /\ nTasks' = nTasks + 1
    /\ UNCHANGED <<resched, setup>>

\* action.schedule(state, delay) called again on a handle the scheduler
\* returned (by its holder, or by work through its `this`).
Reschedule(t, delay) ==
    /\ t <= nTasks
    /\ Requests < MaxCalls
    /\ LET k == resched[t] + 1
           w0 == World("reschedule", t, delay, Origin(k, delay))
       IN  Commit(ActionSchedule(w0, t, StateOf(t, k), delay))
    /\ resched' = [resched EXCEPT ![t] = @ + 1]
    /\ UNCHANGED <<nTasks, setup>>

\* handle.unsubscribe()
Cancel(t) ==
    /\ t <= nTasks
    /\ Commit(ActionUnsubscribe(World("cancel", t, 0, Origin(0, 0)), t))
    /\ UNCHANGED <<nTasks, resched, setup>>

\* The armed timers that have reached their time.
Due(ts) == {i \in 1..Len(ts) : ts[i].rem <= 0}

\* The host runs due timers by due time, and in arming order among equals.
NextDue(ts) ==
    CHOOSE i \in Due(ts) :
        \A j \in Due(ts) :
            \/ ts[i].rem < ts[j].rem
            \/ (ts[i].rem = ts[j].rem /\ i <= j)

\* A timer callback that calls this.schedule() without the state.
TimerCallbackDropsState ==
    /\ Due(timers) # {}
    /\ LET i == NextDue(timers)
           x == timers[i]
           w0 == [World("timer", x.task, 0, x.origin) EXCEPT
                      !.timers = RemoveAt(timers, i)]
       IN  Commit(ActionSchedule(w0, x.task, NoState, 0))
    /\ UNCHANGED <<nTasks, resched, setup>>

\* A timer expires: its callback is () => this.schedule(state).
TimerCallback ==
    /\ Due(timers) # {}
    /\ LET i == NextDue(timers)
           x == timers[i]
           w0 == [World("timer", x.task, 0, x.origin) EXCEPT
                      !.timers = RemoveAt(timers, i)]
       IN  Commit(ActionSchedule(w0, x.task, x.state, 0))
    /\ UNCHANGED <<nTasks, resched, setup>>

\* The render opportunity fires the oldest registration: its callback is
\* () => this.execute(state). Whatever work does to its action during the run
\* happens inside this one callback.
RenderCallback(outcome) ==
    /\ renderQueue # <<>>
    /\ outcome.does = "schedule" => Requests < MaxCalls
    /\ LET r == Head(renderQueue)
           w0 == [World("render", r.task, 0, r.origin) EXCEPT
                      !.renderQueue = Tail(renderQueue)]
           w1 == ActionExecute(w0, r.task, r.state, outcome)
       IN  /\ Commit(w1)
           /\ resched' = IF w1.invoked # <<>> /\ outcome.does = "schedule"
                         THEN [resched EXCEPT ![r.task] = @ + 1]
                         ELSE resched
    /\ UNCHANGED <<nTasks, setup>>

\* One unit of time passes while a timer is armed and none is due: every
\* timer is one unit nearer, every pending request has one unit less to wait
\* (a registered request that has waited long enough stays at 0).
Elapse(o) == [o EXCEPT !.wait = @ - 1]
ElapseDone(o) == [o EXCEPT !.wait = Max(@ - 1, 0)]

Tick ==
    /\ timers # <<>>
    /\ Due(timers) = {}
    /\ timers' = [i \in 1..Len(timers) |->
                     [timers[i] EXCEPT !.rem = @ - 1, !.origin = Elapse(@)]]
    /\ renderQueue' = [i \in 1..Len(renderQueue) |->
                          [renderQueue[i] EXCEPT !.origin = ElapseDone(@)]]
    /\ last' = NoCall("tick")
    /\ UNCHANGED <<nTasks, closed, timeoutId, calls, resched, setup>>

\* new AfterNextRenderScheduler(options), run in the context of the moment.
Construct ==
    /\ scheduler.status = "none"
    /\ scheduler' = Constructor(ambient, options)
    /\ last' = NoCall("construct")
    /\ UNCHANGED <<nTasks, closed, timeoutId, timers, renderQueue, calls,
                   resched, ambient, options, stream>>

\* The injection context ends (the constructor or factory that was running
\* returns); callbacks scheduled in it run later, outside any context.
LeaveContext ==
    /\ ambient # NoContext
    /\ ambient' = NoContext
    /\ last' = NoCall("leave")
    /\ UNCHANGED <<nTasks, closed, timeoutId, timers, renderQueue, calls,
                   resched, options, scheduler, stream>>

Next ==
    \/ \E d \in Delays : SchedulerSchedule(d)
    \/ \E t \in Tasks, d \in Delays : Reschedule(t, d)
    \/ \E t \in Tasks : Cancel(t)
    \/ TimerCallback
    \/ \E o \in Outcomes : RenderCallback(o)
    \/ Tick

Spec == Init /\ [][Next]_vars

\* Timers expire and the render provider fires every registration.
FairSpec ==
    /\ Spec
    /\ WF_vars(TimerCallback)
    /\ WF_vars(\E o \in Outcomes : RenderCallback(o))
    /\ WF_vars(Tick)

\* Construction under every argument and context, then use of the scheduler
\* through AfterNextRenderScheduler.schedule alone.
CtorInit ==
    /\ NoActions
    /\ last = NoCall("init")
    /\ ambient \in {NoContext, AmbientInjector}
    /\ options \in CtorArgs
    /\ scheduler = NotConstructed
    /\ NoStream

CtorNext ==
    \/ Construct
    \/ LeaveContext
    \/ \E delay \in Delays : SchedulerSchedule(delay)
    \/ TimerCallback
    \/ \E o \in PlainOutcomes : RenderCallback(o)
    \/ Tick

CtorSpec == CtorInit /\ [][CtorNext]_vars

\* ---------------------------------------------------- observeOnNextRender
\* source.pipe(observeOnNextRender(injector)): observeOn(scheduler) with
\* delay 0. For every notification of the source, observeOn calls
\* scheduler.schedule(work) with no state, where work hands the notification
\* to the downstream subscriber and then unsubscribes the action; the action
\* is added to the subscriber's teardown.
Values == {"a", "b"}

Notifications ==
    {[kind |-> "next", value |-> v] : v \in Values}
        \cup {[kind |-> "complete", value |-> Absent]}
        \cup {[kind |-> "error", value |-> e] : e \in Errors}

\* A source emits next values and then at most one complete or error.
WellFormed(src) ==
    \A i \in 1..Len(src) : src[i].kind # "next" => i = Len(src)

Sources ==
    UNION {{src \in [1..n -> Notifications] : WellFormed(src)} : n \in 0..MaxCalls}

\* The subscriber tears down: every action added to it is unsubscribed.
RECURSIVE Teardown(_, _)
Teardown(w, n) ==
    IF n = 0 THEN w ELSE Teardown(ActionUnsubscribe(w, n), n - 1)

\* The state after a call into an action whose work is observeOn's: a work
\* invocation the call made has delivered the task's notification (unless
\* the subscriber is stopped), and a complete or error has stopped the
\* subscriber and torn it down. The work's own this.unsubscribe(), which ends
\* every run, is part of the run (Unsubscribes). n is the number of actions
\* created so far.
ObserveOnCommit(w, n) ==
    LET ran == w.invoked # <<>>
        t == w.invoked[1].task
        deliver == ran /\ ~stopped
        terminal == deliver /\ source[t].kind # "next"
        torn == IF terminal THEN Teardown(w, n) ELSE w
    IN  /\ Commit(torn)
        /\ delivered' = IF deliver THEN Append(delivered, source[t])
                        ELSE delivered
        /\ stopped' = (stopped \/ terminal)
        /\ UNCHANGED source

\* The source emits its next notification; observeOn schedules its delivery.
Emit ==
    /\ scheduler.status = "constructed"
    /\ nTasks < Len(source)
    /\ ~stopped
    /\ LET t == nTasks + 1
           w0 == World("schedule", t, 0, Origin(0, 0))
       IN  ObserveOnCommit(ActionSchedule(w0, t, NoState, 0), t)
    /\ nTasks' = nTasks + 1
    /\ UNCHANGED <<resched, ambient, options, scheduler>>

\* The render opportunity fires the oldest registration of a delivery: the
\* work delivers the notification, calls this.unsubscribe() and returns.
RenderDelivery ==
    /\ renderQueue # <<>>
    /\ LET r == Head(renderQueue)
           w0 == [World("render", r.task, 0, r.origin) EXCEPT
                      !.renderQueue = Tail(renderQueue)]
       IN  ObserveOnCommit(ActionExecute(w0, r.task, r.state, Unsubscribes), nTasks)
    /\ UNCHANGED <<nTasks, resched, ambient, options, scheduler>>

StreamInit ==
    /\ NoActions
    /\ last = NoCall("init")
    /\ ambient = NoContext
    /\ options = [kind |-> "injector", injector |-> "i1"]
    /\ scheduler = Constructor(ambient, options)
    /\ source \in Sources
    /\ delivered = <<>>
    /\ stopped = FALSE

StreamNext == Emit \/ RenderDelivery

StreamSpec == StreamInit /\ [][StreamNext]_vars

TypeOK ==
    /\ nTasks \in 0..MaxCalls
    /\ closed \in [Tasks -> BOOLEAN]
    /\ \A t \in Tasks : timeoutId[t] \in Nat /\ calls[t] \in Nat
    /\ Requests \in 0..MaxCalls

\* ------------------------------------------------------------------ claims
Created(t) == t <= nTasks

\* The callbacks of action t that are still to fire: its armed timers and its
\* render registrations.
PendingTimers(t) == {i \in 1..Len(timers) : timers[i].task = t}
PendingRenders(t) == {i \in 1..Len(renderQueue) : renderQueue[i].task = t}
Pending(t) == Cardinality(PendingTimers(t)) + Cardinality(PendingRenders(t))

\* C1 as stated: the work of a task is invoked at most once over any sequence
\* of schedule, cancel, timer-callback and render-callback events.
C1_WorkAtMostOnce ==
    \A t \in Tasks : calls[t] <= 1

\* C1 amended: the work of a task is invoked at most once per schedule() call
\* made on it (the scheduler's call plus every later schedule() call on the
\* returned handle): invocations made plus callbacks still pending never
\* exceed those calls, so a task whose handle is never scheduled again runs
\* its work at most once.
C1_AtMostOncePerScheduleCall ==
    \A t \in Tasks :
        calls[t] + Pending(t) <= (IF Created(t) THEN 1 + resched[t] ELSE 0)

\* A handle scheduled a second time has run its work twice.
C1_Witness ==
    \E t \in Tasks : Created(t) /\ resched[t] = 1 /\ calls[t] = 2

\* C2: cancellation is absorbing: a closed task stays closed, no later
\* callback of it invokes work, and a render callback that fires on it does
\* nothing and raises nothing.
C2_CancelAbsorbing ==
    [][\A t \in Tasks :
          closed[t] =>
              /\ closed'[t]
              /\ calls'[t] = calls[t]
              /\ (last'.task = t /\ last'.op \in {"render", "timer"} =>
                      /\ last'.invoked = <<>>
                      /\ last'.raised = NoError
                      /\ Pending(t)' < Pending(t))]_vars

\* A render callback has fired on a task that was cancelled before it ever
\* ran, and did nothing.
C2_Witness ==
    /\ last.op = "render"
    /\ last.wasClosed
    /\ calls[last.task] = 0
    /\ last.invoked = <<>>

\* C3: schedule never invokes work synchronously, whatever the delay: work is
\* invoked only from inside a render callback.
C3_NeverSynchronous ==
    [][(calls' # calls \/ last'.invoked # <<>>) => last'.op = "render"]_vars

\* Scheduler.schedule has returned from a call with a negative delay: the work
\* has not run and its registration is pending.
C3_Witness ==
    /\ last.op = "schedule"
    /\ last.delay < 0
    /\ calls[last.task] = 0
    /\ PendingRenders(last.task) # {}

\* C4: work scheduled with a delay d > 0 is not invoked before d time units
\* have passed since the schedule call; the timer expiry invokes no work, it
\* makes one render registration (none on a closed task), and the work runs
\* in the render callback of that registration.
C4_DelayRespected ==
    [][/\ (calls' # calls =>
              /\ last'.op = "render"
              /\ renderQueue # <<>>
              /\ Head(renderQueue).origin.wait <= 0)
       /\ (last'.op = "timer" =>
              /\ calls' = calls
              /\ last'.invoked = <<>>
              /\ Len(renderQueue') =
                     Len(renderQueue) + (IF closed[last'.task] THEN 0 ELSE 1))
      ]_vars

\* The work of a delayed request has run, in a render callback.
C4_Witness ==
    /\ last.op = "render"
    /\ last.origin.delayed
    /\ last.origin.wait = 0
    /\ last.invoked # <<>>

\* C5 as stated, its last part: once the work of a task has been invoked, the
\* task is inert and no further callback of it invokes the work again.
C5_InertAfterFiring ==
    [][\A t \in Tasks : calls[t] >= 1 => calls'[t] = calls[t]]_vars

\* A run of work has just ended in which work did not unsubscribe its action.
LeftOpenByWork ==
    /\ last'.op = "render"
    /\ last'.invoked # <<>>
    /\ last'.invoked[1].outcome.does # "unsubscribe"

\* C5 amended: when timers expire and the render provider fires every
\* registration, every task scheduled with a delay >= 0 that is never
\* cancelled eventually has its work invoked (negative delays take the
\* zero-delay path and are covered too); a task on whose handle schedule() is never called again (by its
\* holder or by work) has it invoked exactly once; and firing does not make
\* the task inert: a run that throws nothing and in which work does not
\* unsubscribe its action leaves the task open.
C5_EventuallyRuns ==
    /\ \A t \in Tasks : Created(t) ~> (calls[t] >= 1 \/ closed[t])
    /\ [](\A t \in Tasks : resched[t] = 0 => calls[t] <= 1)
    /\ [][\A t \in Tasks :
             (calls'[t] > calls[t] /\ last'.raised = NoError /\ LeftOpenByWork)
                 => ~closed'[t]]_vars

\* A delayed task that was never cancelled and never scheduled again has run
\* its work once and has no callback left.
C5_Witness ==
    /\ last.op = "render"
    /\ last.origin.delayed
    /\ last.raised = NoError
    /\ calls[last.task] = 1
    /\ resched[last.task] = 0
    /\ ~closed[last.task]
    /\ Pending(last.task) = 0

\* The first request of a task (the scheduler's schedule call), with no delay.
FirstDirect(o) == o.k = 0 /\ ~o.delayed

\* C6: zero-delay tasks fire in the order they were scheduled: when the render
\* callback of a task scheduled with no delay fires, no earlier task that was
\* scheduled with no delay still has that callback pending.
C6_RegistrationOrder ==
    [][last'.op = "render" /\ FirstDirect(last'.origin) =>
          /\ \A i \in 1..Len(renderQueue') :
                 ~(renderQueue'[i].task < last'.task
                     /\ FirstDirect(renderQueue'[i].origin))
          /\ \A i \in 1..Len(timers') :
                 ~(timers'[i].task < last'.task
                     /\ FirstDirect(timers'[i].origin))]_vars

\* Two tasks were scheduled with no delay, and the second has just run its
\* work after the first ran its own.
C6_Witness ==
    /\ last.op = "render"
    /\ last.task = 2
    /\ FirstDirect(last.origin)
    /\ last.invoked # <<>>
    /\ calls[1] = 1 /\ resched[1] = 0 /\ ~closed[1] /\ timeoutId[1] = NULL

\* C7: requests reach the render provider in increasing order of schedule
\* time + delay: no request is registered with the provider while a request
\* with strictly less time left to wait is still held by its timer.
C7_DelayMonotone ==
    \A i \in 1..Len(timers), j \in 1..Len(renderQueue) :
        timers[i].origin.wait >= renderQueue[j].origin.wait

\* The task with the shorter delay is registered with the provider while
\* another task, with the longer delay, is still held by its timer.
C7_Witness ==
    \E i \in 1..Len(timers), j \in 1..Len(renderQueue) :
        /\ renderQueue[j].origin.delayed
        /\ renderQueue[j].origin.k = 0
        /\ timers[i].origin.k = 0
        /\ timers[i].task # renderQueue[j].task
        /\ timers[i].origin.wait > 0

\* What C8 says of a step in which work throws, but for the timers.
ThrowStep(t) ==
    /\ last'.op = "render"
    /\ ~closed[t] /\ closed'[t]
    /\ timeoutId'[t] = NULL
    /\ calls'[t] = calls[t] + 1
    /\ Len(last'.invoked) = 1
    /\ last'.raised = last'.invoked[1].outcome.ends

\* C8 as stated: when work throws E the task becomes closed, any armed timer
\* of it is cleared and E itself is re-raised out of execute; the work is
\* never retried.
C8_ThrowClearsAnyTimer ==
    [][/\ (last'.raised # NoError =>
              /\ ThrowStep(last'.task)
              /\ \A i \in 1..Len(timers') : timers'[i].task # last'.task)
       /\ \A t \in Tasks : closed[t] => calls'[t] = calls[t]]_vars

\* C8, what the code does: when work throws E the task becomes closed, its
\* timeoutId is reset and only the timer that timeoutId referred to is cleared
\* (a timer armed by an earlier schedule() call on the same handle, whose id a
\* later call overwrote, stays armed and expires as a no-op), and E itself is
\* re-raised out of execute; the work is never retried.
C8_ThrowCancels ==
    [][/\ (last'.raised # NoError =>
              /\ ThrowStep(last'.task)
              /\ \A i \in 1..Len(timers') :
                     timers'[i].id # timeoutId[last'.task])
       /\ \A t \in Tasks : closed[t] => calls'[t] = calls[t]]_vars

\* Work has thrown while another callback of the same task was still pending.
C8_Witness ==
    /\ last.op = "render"
    /\ last.raised \in Errors
    /\ closed[last.task]
    /\ Pending(last.task) > 0

TimersOf(ts, u) == SelectSeq(ts, LAMBDA x : x.task = u)
RendersOf(q, u) == SelectSeq(q, LAMBDA x : x.task = u)

\* C9: a task whose work throws changes only its own state: every other
\* task keeps its closed flag, its timer handle, its armed timers, its pending
\* registrations and its invocation count, so it still fires.
C9_ErrorIsolation ==
    [][last'.raised # NoError =>
          \A u \in Tasks \ {last'.task} :
              /\ closed'[u] = closed[u]
              /\ timeoutId'[u] = timeoutId[u]
              /\ calls'[u] = calls[u]
              /\ TimersOf(timers', u) = TimersOf(timers, u)
              /\ RendersOf(renderQueue', u) = RendersOf(renderQueue, u)]_vars

\* Work has thrown while one sibling waits in its timer and another is
\* registered with the provider.
C9_Witness ==
    /\ last.raised \in Errors
    /\ \E i \in 1..Len(timers) : timers[i].task # last.task
    /\ \E j \in 1..Len(renderQueue) : renderQueue[j].task # last.task

\* C10: cancel is idempotent: from every reachable state, a second
\* unsubscribe of a task leaves the closed flags, timer handles, armed
\* timers and registrations exactly as the first left them and raises
\* nothing, and an unsubscribe of a closed task changes nothing.
C10_CancelIdempotent ==
    /\ [](\A t \in Tasks :
             LET once == ActionUnsubscribe(World("cancel", t, 0, Origin(0, 0)), t)
                 twice == ActionUnsubscribe(once, t)
             IN  /\ twice = once
                 /\ once.closed[t]
                 /\ once.raised = NoError)
    /\ [][last'.op = "cancel" /\ closed[last'.task] =>
             /\ UNCHANGED <<closed, timeoutId, timers, renderQueue, calls>>
             /\ last'.raised = NoError]_vars

\* unsubscribe was called on a task that an earlier unsubscribe had closed
\* while its timer was armed.
C10_Witness ==
    /\ last.op = "cancel"
    /\ last.wasClosed
    /\ calls[last.task] = 0
    /\ resched[last.task] = 0
    /\ Pending(last.task) = 0

\* The injector the constructor's argument supplies, directly or in the
\* options object; Absent when it supplies none.
Supplied(arg) ==
    IF arg.kind = "undefined" THEN Absent ELSE arg.injector

\* C11: construction throws, building no scheduler, exactly when the argument
\* supplies no injector and no injection context is active; with an injector
\* supplied it succeeds in or out of a context without calling inject(), and
\* every render registration of the scheduler's tasks is made against the
\* supplied injector (against the context's injector when none is supplied).
C11_ConstructionContext ==
    /\ [][scheduler.status = "none" /\ scheduler'.status # "none" =>
            /\ (scheduler'.status = "threw")
                   <=> (Supplied(options) = Absent /\ ambient = NoContext)
            /\ scheduler'.status = "threw" => scheduler'.injector = Absent
            /\ Supplied(options) # Absent =>
                   /\ scheduler'.status = "constructed"
                   /\ scheduler'.injector = Supplied(options)
                   /\ scheduler'.injectCalls = 0
            /\ (Supplied(options) = Absent /\ ambient # NoContext) =>
                   /\ scheduler'.status = "constructed"
                   /\ scheduler'.injector = ambient]_vars
    /\ [](/\ scheduler.status # "constructed" =>
               nTasks = 0 /\ timers = <<>> /\ renderQueue = <<>>
          /\ \A i \in 1..Len(renderQueue) :
               /\ renderQueue[i].injector = scheduler.injector
               /\ Supplied(options) # Absent =>
                      renderQueue[i].injector = Supplied(options))

\* A scheduler built from an options object outside any injection context
\* has a task registered against the injector the options gave.
C11_Witness ==
    /\ scheduler.status = "constructed"
    /\ scheduler.injectCalls = 0
    /\ options.kind = "options"
    /\ options.injector = "i2"
    /\ ambient = NoContext
    /\ renderQueue # <<>>
    /\ renderQueue[1].injector = "i2"

\* C12: the downstream subscriber of source.pipe(observeOnNextRender(...))
\* receives the source's notifications in the source's order, each once and
\* all of them once the render callbacks have run; a notification is
\* delivered only by a render callback, never in the step in which the source
\* emits it; a source that emits no next value never reaches the next handler
\* and reaches the error handler at most once.
C12_ObserveOnNextRender ==
    /\ [](/\ Len(delivered) <= nTasks
          /\ delivered = SubSeq(source, 1, Len(delivered))
          /\ (renderQueue = <<>> => delivered = SubSeq(source, 1, nTasks))
          /\ ((\A i \in 1..Len(source) : source[i].kind # "next") =>
                 /\ \A j \in 1..Len(delivered) : delivered[j].kind # "next"
                 /\ Len(delivered) <= 1))
    /\ [][/\ (delivered' # delivered =>
                  /\ last'.op = "render"
                  /\ Len(delivered') = Len(delivered) + 1)
           /\ (nTasks' # nTasks => delivered' = delivered)]_vars

\* A source of two values and a complete has been delivered whole.
C12_Witness ==
    /\ Len(source) = 3
    /\ source[1].kind = "next"
    /\ source[2].kind = "next"
    /\ source[3].kind = "complete"
    /\ delivered = source
    /\ stopped

\* A source of one error has reached the error handler and nothing else.
C12_ErrorOnlyWitness ==
    /\ Len(source) = 1
    /\ source[1].kind = "error"
    /\ delivered = source

\* The two states the task lifecycle calls terminal.
Fired(t) == calls[t] >= 1
Cancelled(t) == closed[t]

\* C13 as stated, its first half: Fired (work has been invoked) and Cancelled
\* (closed is true) are mutually exclusive: no reachable task state is both.
C13_FiredCancelledExclusive ==
    \A t \in Tasks : ~(Fired(t) /\ Cancelled(t))

\* C13 amended: Cancelled is the terminal state and it is absorbing: a closed
\* task has a null timer handle, and no step reopens it, invokes its work,
\* sets its timer handle or adds a timer or a render registration for it.
\* (Fired is neither exclusive of Cancelled nor absorbing.)
C13_CancelledAbsorbing ==
    /\ [](\A t \in Tasks : Cancelled(t) => timeoutId[t] = NULL)
    /\ [][\A t \in Tasks :
            Cancelled(t) =>
                /\ Cancelled(t)'
                /\ calls'[t] = calls[t]
                /\ timeoutId'[t] = NULL
                /\ Pending(t)' <= Pending(t)]_vars

\* A task whose work was invoked is closed, and schedule() has just been
\* called on its handle.
C13_Witness ==
    /\ last.op = "reschedule"
    /\ last.wasClosed
    /\ Fired(last.task)
    /\ Cancelled(last.task)

\* C14 as stated: once work has returned from execute, a later
\* schedule(state, delay) on the same handle arms no timer and registers no
\* render callback.
C14_NoSchedulingAfterRun ==
    [][(last'.op = "reschedule" /\ Fired(last'.task)) =>
           (timers' = timers /\ renderQueue' = renderQueue)]_vars

\* A run of work has just returned in which work called
\* this.schedule(state, delay) on its own action.
ScheduledByWork ==
    /\ last'.op = "render"
    /\ last'.invoked # <<>>
    /\ last'.invoked[1].outcome.does = "schedule"
    /\ last'.raised = NoError

\* C14 amended: execute does not close a task whose work returns: the task
\* is closed after the run only if work itself unsubscribed it. A
\* schedule(state, delay) call on the handle of a task that has run acts as
\* on any task: on a closed one it changes nothing, on an open one it arms one
\* timer (delay > 0) or makes one render registration (delay <= 0), whose
\* callback will invoke work again; so does a schedule call that work makes
\* through its `this` action during the run.
C14_RescheduleAfterRun ==
    [][LET t == last'.task
       IN  /\ (LeftOpenByWork /\ last'.raised = NoError) => ~closed'[t]
           /\ ScheduledByWork =>
                  IF last'.invoked[1].outcome.delay > 0
                  THEN /\ Len(timers') = Len(timers) + 1
                       /\ timers'[Len(timers')].task = t
                       /\ renderQueue' = Tail(renderQueue)
                  ELSE /\ Len(renderQueue') = Len(renderQueue)
                       /\ renderQueue'[Len(renderQueue')].task = t
                       /\ renderQueue'[Len(renderQueue')].origin.k = resched'[t]
                       /\ timers' = timers
           /\ (last'.op = "reschedule" /\ Fired(t)) =>
                  IF closed[t]
                  THEN timers' = timers /\ renderQueue' = renderQueue
                  ELSE IF last'.delay > 0
                       THEN /\ Len(timers') = Len(timers) + 1
                            /\ timers'[Len(timers')].task = t
                            /\ renderQueue' = renderQueue
                       ELSE /\ Len(renderQueue') = Len(renderQueue) + 1
                            /\ renderQueue'[Len(renderQueue')].task = t
                            /\ timers' = timers]_vars

\* schedule() has just been called on the handle of an open task whose work
\* had already run, and the task has a callback pending again.
C14_Witness ==
    /\ last.op = "reschedule"
    /\ ~last.wasClosed
    /\ Fired(last.task)
    /\ Pending(last.task) = 1

\* C15: cancel() clears any armed timer of the task: after the call no timer
\* of the task is armed, no timer callback of a cancelled task ever runs, and
\* a cancelled task never makes a render registration.
C15_CancelClearsTimers ==
    [][\A t \in Tasks :
          /\ (last'.op = "cancel" /\ last'.task = t) => PendingTimers(t)' = {}
          /\ (last'.op = "timer" /\ last'.task = t) => ~Cancelled(t)
          /\ Cancelled(t) =>
                 Cardinality(PendingRenders(t)') <= Cardinality(PendingRenders(t))]_vars

\* The ids of the armed timers.
TimerIds(ts) == {ts[i].id : i \in 1..Len(ts)}

\* C16: a schedule(state, delay) call on a task that is not closed takes one
\* path: with delay > 0 it arms exactly one timer, of that delay, and makes
\* no render registration; with delay <= 0, negative delays included, it
\* makes exactly one render registration and arms no timer. A timer expiring
\* on a task that is not closed makes exactly one render registration and
\* arms no new timer.
C16_PathDispatch ==
    [][LET t == last'.task
           m == Len(timers)
           n == Len(renderQueue)
       IN  /\ (last'.op \in {"schedule", "reschedule"} /\ ~last'.wasClosed) =>
                  IF last'.delay > 0
                  THEN /\ Len(timers') = m + 1
                       /\ SubSeq(timers', 1, m) = timers
                       /\ timers'[m + 1].task = t
                       /\ timers'[m + 1].rem = last'.delay
                       /\ renderQueue' = renderQueue
                  ELSE /\ Len(renderQueue') = n + 1
                       /\ SubSeq(renderQueue', 1, n) = renderQueue
                       /\ renderQueue'[n + 1].task = t
                       /\ timers' = timers
           /\ (last'.op = "timer" /\ ~last'.wasClosed) =>
                  /\ Len(renderQueue') = n + 1
                  /\ SubSeq(renderQueue', 1, n) = renderQueue
                  /\ renderQueue'[n + 1].task = t
                  /\ Len(timers') = m - 1
                  /\ TimerIds(timers') \subseteq TimerIds(timers)]_vars

\* schedule() was just called with a negative delay on an open task: the
\* task has a render registration and no timer.
C16_Witness ==
    /\ last.op \in {"schedule", "reschedule"}
    /\ last.delay < 0
    /\ ~last.wasClosed
    /\ PendingRenders(last.task) # {}
    /\ PendingTimers(last.task) = {}

\* C17: schedule(state, delay) on a closed task is a no-op for every delay: it
\* returns the same handle, arms no timer, makes no render registration and
\* leaves the task's state as it was; so does the schedule(state) call of a
\* timer that expires on a closed task.
C17_ScheduleOnClosedNoOp ==
    [][/\ (last'.op = "reschedule" /\ last'.wasClosed) =>
              /\ last'.returned = last'.task
              /\ last'.invoked = <<>>
              /\ last'.raised = NoError
              /\ UNCHANGED <<closed, timeoutId, timers, renderQueue, calls>>
       /\ (last'.op = "timer" /\ last'.wasClosed) =>
              /\ last'.returned = last'.task
              /\ Len(timers') = Len(timers) - 1
              /\ UNCHANGED <<closed, timeoutId, renderQueue, calls>>]_vars

\* schedule() with a positive delay was just called on a closed task.
C17_Witness ==
    /\ last.op = "reschedule"
    /\ last.wasClosed
    /\ last.delay > 0
    /\ last.returned = last.task

\* C18 as stated: whenever work is invoked for a task created by
\* Scheduler.schedule(work, delay, state), it is invoked with the state value
\* given to that Scheduler.schedule call.
C18_StateOfSchedulerCall ==
    [][\A i \in 1..Len(last'.invoked) :
          last'.invoked[i].state = StateOf(last'.invoked[i].task, 0)]_vars

\* C18 amended: work is invoked with the state value of the schedule call
\* that requested the invocation (the Scheduler.schedule call, or a later
\* schedule(state, delay) call on the handle), on the zero-delay and the
\* delayed path alike, and never with a state given for another task: every
\* armed timer and every render registration carries the state of its
\* request, and every invocation receives it.
C18_StatePassThrough ==
    /\ [](/\ \A i \in 1..Len(timers) :
               timers[i].state = StateOf(timers[i].task, timers[i].origin.k)
          /\ \A i \in 1..Len(renderQueue) :
               renderQueue[i].state
                   = StateOf(renderQueue[i].task, renderQueue[i].origin.k))
    /\ [][\A i \in 1..Len(last'.invoked) :
            /\ last'.invoked[i].task = last'.task
            /\ last'.invoked[i].state = StateOf(last'.task, last'.origin.k)]_vars

\* Work has just been invoked for a delayed request made through the handle,
\* with the state of that request.
C18_Witness ==
    /\ last.op = "render"
    /\ last.invoked # <<>>
    /\ last.origin.delayed
    /\ last.origin.k = 1
    /\ last.invoked[1].state = StateOf(last.task, 1)

\* C19: in every reachable state a task has at most one armed timer, its
\* timeoutId is non-null exactly when that timer is armed and is then that
\* timer's id, and a closed task has a null timeoutId and no armed timer.
C19_TimerHandle ==
    \A t \in Tasks :
        /\ Cardinality(PendingTimers(t)) <= 1
        /\ timeoutId[t] # NULL <=> PendingTimers(t) # {}
        /\ \A i \in PendingTimers(t) : timers[i].id = timeoutId[t]
        /\ Cancelled(t) => (timeoutId[t] = NULL /\ PendingTimers(t) = {})

\* C20 as stated: closed is false on the handle Scheduler.schedule returns
\* and on tasks not yet created, it turns true exactly when unsubscribe() is
\* called on the task or its work throws, it stays false after work returns
\* successfully, and once true it never becomes false.
C20_StaysFalseAfterReturn ==
    /\ [](\A t \in Tasks : ~Created(t) => ~closed[t])
    /\ [][\A t \in Tasks :
            /\ closed[t] => closed'[t]
            /\ last'.task = t =>
                   /\ last'.op = "cancel" => closed'[t]
                   /\ last'.raised # NoError => closed'[t]
                   /\ last'.op = "schedule" => ~closed'[t]
                   /\ (last'.op = "render" /\ last'.invoked # <<>>
                          /\ last'.raised = NoError) => ~closed'[t]]_vars

\* unsubscribe() has just been called on task t: by the holder of its handle,
\* or by its work during a run.
UnsubscribeCalled(t) ==
    /\ last'.task = t
    /\ \/ last'.op = "cancel"
       \/ /\ last'.op = "render"
          /\ last'.invoked # <<>>
          /\ last'.invoked[1].outcome.does = "unsubscribe"

\* The work of task t has just thrown.
WorkThrew(t) ==
    /\ last'.task = t
    /\ last'.op = "render"
    /\ last'.invoked # <<>>
    /\ last'.raised \in Errors

\* C20 amended: closed turns true exactly in a step in which unsubscribe() is
\* called on the task (by the holder of the handle, or by work on its own
\* action) or in which its work throws; it is false on the handle
\* Scheduler.schedule returns and on tasks not yet created; a run of work
\* that returns leaves it false unless work itself unsubscribed the task; and
\* once true it never becomes false.
C20_ClosedFlag ==
    /\ [](\A t \in Tasks : ~Created(t) => ~closed[t])
    /\ [][\A t \in Tasks :
            /\ closed[t] => closed'[t]
            /\ (~closed[t] /\ closed'[t]) => (UnsubscribeCalled(t) \/ WorkThrew(t))
            /\ (UnsubscribeCalled(t) \/ WorkThrew(t)) => closed'[t]
            /\ last'.task = t =>
                   /\ last'.raised # NoError => closed'[t]
                   /\ last'.op = "schedule" =>
                          (last'.returned = t /\ ~closed'[t])
                   /\ (LeftOpenByWork /\ last'.raised = NoError) => ~closed'[t]]_vars

\* The work of a task has just unsubscribed its own action and returned: the
\* run raised nothing and the task is closed.
C20_Witness ==
    /\ last.op = "render"
    /\ last.invoked # <<>>
    /\ last.invoked[1].outcome.does = "unsubscribe"
    /\ last.raised = NoError
    /\ closed[last.task]

====
